---- MODULE Spec2Model ----
(***************************************************************************)
(* Model of the Fyrtur roller-blind motor firmware core                    *)
(* (src/Core/Src/motor.c, src/Core/Src/motor.h).                           *)
(*                                                                         *)
(* Execution contexts (spec section 5):                                    *)
(*   - the main loop, motor_process, executed one C statement per step;    *)
(*   - the 10 ms regulator ISR, motor_adjust_rpm, executed one statement   *)
(*     per step; it preempts the main loop and is itself preempted by the  *)
(*     three ISRs below;                                                   *)
(*   - the 1 ms SysTick ISR (motor_stall_check), the Hall EXTI ISR         *)
(*     (hall_sensor_callback) and the UART ISR (handle_command), each run  *)
(*     to completion in one step.                                          *)
(* The main loop only advances while no ISR is in flight.                  *)
(*                                                                         *)
(* Time: HAL_GetTick() is not stored.  The two timestamps are kept as the  *)
(* elapsed time since they were taken (movement_elapsed, endpoint_elapsed),*)
(* saturating one above the threshold they are compared with: the code     *)
(* only ever evaluates  HAL_GetTick() - timestamp > THRESHOLD.             *)
(* Straight-line code (a main-loop handler outside HAL_Delay, an ISR)      *)
(* lasts far less than 1 ms: at most MaxPreempt interrupts fall into it.   *)
(*                                                                         *)
(* The environment (Hall edges, UART frames, SysTicks, regulator           *)
(* interrupts) delivers, in each run, the numbers of interrupts of one of  *)
(* the profiles chosen at boot.                                            *)
(*                                                                         *)
(* main.h is not among the sources: GEAR_RATIO, the HALL_SENSOR_* periods, *)
(* ENDPOINT_CALIBRATION_PERIOD and the DEFAULT_* values it sets are given  *)
(* small tick-scaled values here.                                          *)
(***************************************************************************)
EXTENDS Integers, Sequences, FiniteSets, TLC

\* ---------------------------------------------------------------- constants
\* motor.c / motor.h
INITIAL_PWM == 60
DEFAULT_TARGET_SPEED == 18
PWM_CEILING == 254
HALL_1_SENSOR == 0
HALL_2_SENSOR == 1

\* opcodes (motor.c:91-133), decimal
CMD_GO_TO == 221
CMD_UP == 2781
CMD_DOWN == 2798
CMD_UP_17 == 2573
CMD_DOWN_17 == 2574
CMD_STOP == 2764
CMD_OVERRIDE_UP_90 == 64209
CMD_OVERRIDE_DOWN_90 == 64210
CMD_OVERRIDE_UP_6 == 64211
CMD_OVERRIDE_DOWN_6 == 64212
CMD_SET_MAX_CURTAIN_LENGTH == 64238
CMD_SET_FULL_CURTAIN_LENGTH == 64204
CMD_RESET_CURTAIN_LENGTH == 64000
CMD_EXT_GO_TO == 16
CMD_EXT_SET_SPEED == 32
CMD_EXT_SET_DEFAULT_SPEED == 48
CMD_EXT_SET_MINIMUM_VOLTAGE == 64
CMD_EXT_SET_LOCATION == 80
CMD_EXT_SET_AUTO_CAL == 96
CMD_EXT_GO_TO_LOCATION == 112
CMD_EXT_SET_SLOWDOWN_FACTOR == 128
CMD_EXT_SET_MIN_SLOWDOWN_SPEED == 144
CMD_EXT_OVERRIDE_DOWN == 64218
CMD_GET_STATUS == 52428
CMD_EXT_GET_LOCATION == 52432
CMD_EXT_DEBUG == 52433
CMD_EXT_SENSOR_DEBUG == 52434
CMD_EXT_GET_VERSION == 52444
CMD_EXT_GET_STATUS == 52446
CMD_EXT_GET_LIMITS == 52447

\* main.h values, scaled (one model tick stands for one SysTick period)
GEAR_RATIO == 12
HALL_SENSOR_GRACE_PERIOD == 2
HALL_SENSOR_TIMEOUT == 1
HALL_SENSOR_TIMEOUT_WHILE_STOPPING == 3
ENDPOINT_CALIBRATION_PERIOD == 2
DEFAULT_FULL_CURTAIN_LEN == 3
DEFAULT_MINIMUM_SLOWDOWN_SPEED == 5
DEFAULT_SLOWDOWN_FACTOR == 2
DEFAULT_MINIMUM_VOLTAGE == 6
DEFAULT_AUTO_CAL_SETTING == 1
VERSION_MAJOR == 0
VERSION_MINOR == 7

\* bounds of the exploration
LocBelow == 1       \* Hall edges are explored while location >= -LocBelow
LocAbove == 3       \* ... and location <= LocAbove
TickCap == 2        \* hall_sensor_1_ticks saturates here (the code tests "> 1")
Tick2Cap == 1       \* hall_sensor_2_ticks saturates here (the code never reads it)
MaxDirError == 1    \* dir_error is explored up to this value
PwmDrift == 0       \* the regulator is entered while |curr_pwm - INITIAL_PWM| <= PwmDrift
MaxHallEdges == 3   \* Hall edges in a run without SysTicks
MaxFrames == 2      \* UART frames in a run
StallTicks == 4     \* SysTicks in a run with Hall edges and frames
MaxTicks == 7       \* SysTicks in a run with one frame
MaxAdjusts == 1     \* regulator interrupts in a run
MaxSpin == 4        \* Hall edges in a run of the command interface
Sample1 == 0        \* a reading
Sample2 == 515      \* another reading, wider than a byte
SlowInterval == 400 \* a long time between two edges of Hall sensor 1, in ticks
MaxPreempt == 1     \* interrupts falling into one stretch of straight-line code

U8 == 2^8

Min(a, b) == IF a < b THEN a ELSE b
Max(a, b) == IF a > b THEN a ELSE b
Abs(a) == IF a < 0 THEN -a ELSE a

\* 32-bit values are kept as their int32_t reading (a uint32_t above 2^31 - 1 as
\* the negative number with the same bits); UGt is the comparison C makes when
\* one operand is unsigned
UGt(a, b) == IF (a < 0) = (b < 0) THEN a > b ELSE a < 0

DEG_TO_LOCATION(x) == (GEAR_RATIO * 4 * x) \div 360

Powered == {"Moving", "Stopping"}

\* ---------------------------------------------------------------- state
VARIABLES
    m,            \* the firmware's globals and the bridge / timer outputs
    pc_main,      \* main loop: [cmd, at], at = 0 when motor_process is not in a branch
    motor_speed,  \* argument of motor_up / motor_down in flight
    pc_adj,       \* position of the regulator ISR ("idle" when not in flight)
    speed,        \* local of motor_adjust_rpm
    preempts,     \* interrupts that fell into the straight-line code in flight
    hall_left,    \* Hall edges still to come (-1: unlimited)
    uart_left,    \* UART frames still to come (-1: unlimited)
    tick_left,    \* SysTicks still to come (-1: unlimited)
    adj_left,     \* regulator interrupts still to come (-1: unlimited)
    ev,           \* history: the handler that made the last step
    rx_buffer,    \* opcode bytes <<cmd1, cmd2>> of the last frame received
    tx_buffer,    \* reply buffer handed to handle_command, bytes 0..8
    tx_bytes,     \* *tx_bytes, the length of the reply
    eeprom,       \* non-volatile store: slot -> value, NoValue when never written
    written       \* history: the EE_WriteVariable calls of the last step

vars == <<m, pc_main, motor_speed, pc_adj, speed, preempts, hall_left, uart_left, tick_left, adj_left, ev,
          rx_buffer, tx_buffer, tx_bytes, eeprom, written>>

\* what only the UART handler and the boot code touch
io == <<rx_buffer, tx_buffer, tx_bytes, eeprom, written>>

env == <<hall_left, uart_left, tick_left, adj_left>>

Spend(n) == IF n > 0 THEN n - 1 ELSE n

\* ---------------------------------------------------------------- motor_stop
NStop == 14

\* a motor_stop that leaves the HIGH_1 gate as it is
motor_stop_stmt_keeps_high_1(s, k) ==
    CASE k = 1 -> [s EXCEPT !.LOW1_PWM = FALSE]
      [] k = 2 -> [s EXCEPT !.LOW2_PWM = FALSE]
      [] k = 3 -> s
      [] k = 4 -> [s EXCEPT !.HIGH_2 = FALSE]
      [] k = 5 -> [s EXCEPT !.CCR1 = 0]
      [] k = 6 -> [s EXCEPT !.CCR4 = 0]
      [] k = 7 -> [s EXCEPT !.status = "Stopped"]
      [] k = 8 -> [s EXCEPT !.direction = "None"]
      [] k = 9 -> [s EXCEPT !.curr_pwm = 0]
      [] k = 10 -> [s EXCEPT !.hall_sensor_1_interval = 0]
      [] k = 11 -> [s EXCEPT !.hall_sensor_1_ticks = 0]
      [] k = 12 -> [s EXCEPT !.hall_sensor_2_ticks = 0]
      [] k = 13 -> [s EXCEPT !.hall_sensor_1_idle_time = 0]
      [] k = 14 -> [s EXCEPT !.target_speed = 0]

\* motor_stop, statement k (the debug snapshots of lines 464-466 are not modelled)
motor_stop_stmt(s, k) ==
    CASE k = 1 -> [s EXCEPT !.LOW1_PWM = FALSE]
      [] k = 2 -> [s EXCEPT !.LOW2_PWM = FALSE]
      [] k = 3 -> [s EXCEPT !.HIGH_1 = FALSE]
      [] k = 4 -> [s EXCEPT !.HIGH_2 = FALSE]
      [] k = 5 -> [s EXCEPT !.CCR1 = 0]
      [] k = 6 -> [s EXCEPT !.CCR4 = 0]
      [] k = 7 -> [s EXCEPT !.status = "Stopped"]
      [] k = 8 -> [s EXCEPT !.direction = "None"]
      [] k = 9 -> [s EXCEPT !.curr_pwm = 0]
      [] k = 10 -> [s EXCEPT !.hall_sensor_1_interval = 0]
      [] k = 11 -> [s EXCEPT !.hall_sensor_1_ticks = 0]
      [] k = 12 -> [s EXCEPT !.hall_sensor_2_ticks = 0]
      [] k = 13 -> [s EXCEPT !.hall_sensor_1_idle_time = 0]
      [] k = 14 -> [s EXCEPT !.target_speed = 0]

RECURSIVE motor_stop_from(_, _)
motor_stop_from(s, k) ==
    IF k > NStop THEN s ELSE motor_stop_from(motor_stop_stmt(s, k), k + 1)

\* a motor_stop that forgets to reset target_speed
motor_stop_keeps_speed(s) ==
    [motor_stop_from(s, 1) EXCEPT !.target_speed = s.target_speed]

\* motor_stop called from an ISR: runs to completion
motor_stop(s) == motor_stop_from(s, 1)

\* ---------------------------------------------------------------- starting
\* motor_start_common after motor_stop() and HAL_Delay(10): statements 1..4
motor_start_common_stmt(s, k, spd) ==
    CASE k = 1 -> [s EXCEPT !.movement_elapsed = 0]
      [] k = 2 -> [s EXCEPT !.target_speed = spd]
      [] k = 3 -> [s EXCEPT !.curr_pwm = INITIAL_PWM]
      [] k = 4 -> [s EXCEPT !.status = "Moving"]

\* motor_up after motor_start_common: statements 1..4
motor_up_stmt(s, k) ==
    CASE k = 1 -> [s EXCEPT !.LOW2_PWM = TRUE]
      [] k = 2 -> [s EXCEPT !.CCR4 = INITIAL_PWM]
      [] k = 3 -> [s EXCEPT !.HIGH_1 = TRUE]
      [] k = 4 -> [s EXCEPT !.direction = "Up"]

\* motor_down after motor_start_common: statements 1..4
motor_down_stmt(s, k) ==
    CASE k = 1 -> [s EXCEPT !.LOW1_PWM = TRUE]
      [] k = 2 -> [s EXCEPT !.CCR1 = INITIAL_PWM]
      [] k = 3 -> [s EXCEPT !.HIGH_2 = TRUE]
      [] k = 4 -> [s EXCEPT !.direction = "Down"]

\* ---------------------------------------------------------------- location
get_rpm(s) ==
    IF s.hall_sensor_1_interval # 0
    THEN (((60 * 1000) \div GEAR_RATIO) \div s.hall_sensor_1_interval) \div 2
    ELSE 0

\* a slowdown that returns to the default speed once the motor is slower
process_location_slowdown_resumes(s) ==
    IF s.direction # "None"
    THEN LET distance_to_target == Abs(s.target_location - s.location) IN
         IF distance_to_target < (s.target_speed * s.slowdown_factor) \div 8
         THEN LET raw == (distance_to_target * 8) \div s.slowdown_factor
                  new_speed == IF raw < s.min_slowdown_speed
                               THEN s.min_slowdown_speed ELSE raw
              IN [s EXCEPT !.status = "Stopping",
                           !.target_speed = IF new_speed < @ THEN new_speed ELSE @]
         ELSE [s EXCEPT !.target_speed = s.default_speed]
    ELSE s

\* a slowdown without the minimum approach speed
process_location_slowdown_unclamped(s) ==
    IF s.direction # "None"
    THEN LET distance_to_target == Abs(s.target_location - s.location) IN
         IF distance_to_target < (s.target_speed * s.slowdown_factor) \div 8
         THEN LET new_speed == (distance_to_target * 8) \div s.slowdown_factor
              IN [s EXCEPT !.status = "Stopping",
                           !.target_speed = IF new_speed < @ THEN new_speed ELSE @]
         ELSE s
    ELSE s

\* process_location, lines 267-278: slow down when approaching the target
process_location_slowdown(s) ==
    IF s.direction # "None"
    THEN LET distance_to_target == Abs(s.target_location - s.location) IN
         IF distance_to_target < (s.target_speed * s.slowdown_factor) \div 8
         THEN LET raw == (distance_to_target * 8) \div s.slowdown_factor
                  new_speed == IF raw < s.min_slowdown_speed
                               THEN s.min_slowdown_speed ELSE raw
              IN [s EXCEPT !.status = "Stopping",
                           !.target_speed = IF new_speed < @ THEN new_speed ELSE @]
         ELSE s
    ELSE s

\* a process_location that stops on the target instead of one before it
process_location_stops_on_target(s, sensor_direction) ==
    /\ ~s.calibrating
    /\ \/ /\ sensor_direction = "Up"
          /\ s.direction = "Up"
          /\ s.target_location # -1
          /\ s.location - 1 <= s.target_location
       \/ /\ sensor_direction = "Down"
          /\ s.direction = "Down"
          /\ s.location + 1 >= s.target_location

\* process_location: TRUE when it calls motor_stop() and returns 1
process_location_stops(s, sensor_direction) ==
    /\ ~s.calibrating
    /\ \/ /\ sensor_direction = "Up"
          /\ s.direction = "Up"
          /\ s.target_location # -1
          /\ (s.location - 1) - 1 <= s.target_location
       \/ /\ sensor_direction = "Down"
          /\ s.direction = "Down"
          /\ (s.location + 1) + 1 >= s.target_location

process_location(s, sensor_direction) ==
    IF s.calibrating THEN s
    ELSE LET moved == IF sensor_direction = "Up"
                      THEN [s EXCEPT !.location = @ - 1]
                      ELSE IF sensor_direction = "Down"
                           THEN [s EXCEPT !.location = @ + 1]
                           ELSE s
         IN IF process_location_stops(s, sensor_direction)
            THEN motor_stop(moved)
            ELSE process_location_slowdown(moved)

\* ---------------------------------------------------------------- Hall ISR
new_rotor_position(sensor, value) == sensor + (1 - value) * 2

hall_diff(s, sensor, value) == (4 + new_rotor_position(sensor, value) - s.rotor_position) % 4

\* a hall_sensor_callback that restarts the idle time on the edges of both sensors
hall_count_both(s, sensor) ==
    IF sensor = HALL_1_SENSOR
    THEN LET n == Min(s.hall_sensor_1_ticks + 1, TickCap) IN
         [s EXCEPT !.hall_sensor_1_ticks = n,
                   !.hall_sensor_1_interval = IF n > 1 THEN s.hall_sensor_1_idle_time ELSE @,
                   !.hall_sensor_1_idle_time = 0]
    ELSE [s EXCEPT !.hall_sensor_2_ticks = Min(@ + 1, Tick2Cap),
                   !.hall_sensor_1_idle_time = 0]

\* lines 299-308: tick counters, interval and idle time
hall_count(s, sensor) ==
    IF sensor = HALL_1_SENSOR
    THEN LET n == Min(s.hall_sensor_1_ticks + 1, TickCap) IN
         [s EXCEPT !.hall_sensor_1_ticks = n,
                   !.hall_sensor_1_interval = IF n > 1 THEN s.hall_sensor_1_idle_time ELSE @,
                   !.hall_sensor_1_idle_time = 0]
    ELSE [s EXCEPT !.hall_sensor_2_ticks = Min(@ + 1, Tick2Cap)]

\* a direction inference that moves the location by two on the edges of sensor 1
\* and ignores the edges of sensor 2
hall_decode_sensor_1_only(s, sensor, value) ==
    IF s.rotor_position # -1 /\ sensor = HALL_1_SENSOR
    THEN LET diff == hall_diff(s, sensor, value) IN
         IF diff = 1
         THEN IF s.direction # "Down"
              THEN process_location(process_location(s, "Up"), "Up")
              ELSE [s EXCEPT !.dir_error = @ + 1]
         ELSE IF diff = 3
              THEN IF s.direction # "Up"
                   THEN process_location(process_location(s, "Down"), "Down")
                   ELSE [s EXCEPT !.dir_error = @ + 1]
              ELSE s
    ELSE s

\* a direction inference that follows the sensors on a mismatch
hall_decode_trusts_sensor(s, sensor, value) ==
    IF s.rotor_position # -1
    THEN LET diff == hall_diff(s, sensor, value) IN
         IF diff = 1
         THEN [process_location(s, "Up")
                  EXCEPT !.dir_error = IF s.direction = "Down" THEN @ + 1 ELSE @]
         ELSE IF diff = 3
              THEN [process_location(s, "Down")
                       EXCEPT !.dir_error = IF s.direction = "Up" THEN @ + 1 ELSE @]
              ELSE s
    ELSE s

\* lines 318-344: direction inference
hall_decode(s, sensor, value) ==
    IF s.rotor_position # -1
    THEN LET diff == hall_diff(s, sensor, value) IN
         IF diff = 1
         THEN IF s.direction # "Down"
              THEN process_location(s, "Up")
              ELSE [s EXCEPT !.dir_error = @ + 1]
         ELSE IF diff = 3
              THEN IF s.direction # "Up"
                   THEN process_location(s, "Down")
                   ELSE [s EXCEPT !.dir_error = @ + 1]
              ELSE s
    ELSE s

hall_sensor_callback(s, sensor, value) ==
    [hall_decode(hall_count(s, sensor), sensor, value)
        EXCEPT !.rotor_position = new_rotor_position(sensor, value)]

\* ---------------------------------------------------------------- stall supervisor
\* a motor_stopped that treats a downward stall like a stall while slowing down
motor_stopped_no_error(s) ==
    IF s.status # "Stopped"
    THEN LET current_status == s.status
             current_direction == s.direction
             t == motor_stop(s)
         IN IF current_status = "Moving" /\ current_direction = "Up"
            THEN [t EXCEPT !.status = "CalibratingEndPoint", !.endpoint_elapsed = 0]
            ELSE [t EXCEPT !.status = "Stopped"]
    ELSE s

motor_stopped(s) ==
    IF s.status # "Stopped"
    THEN LET current_status == s.status
             current_direction == s.direction
             t == motor_stop(s)
         IN IF current_status = "Moving"
            THEN IF current_direction = "Up"
                 THEN [t EXCEPT !.status = "CalibratingEndPoint", !.endpoint_elapsed = 0]
                 ELSE [t EXCEPT !.status = "Error"]
            ELSE IF current_status = "Stopping"
                 THEN [t EXCEPT !.status = "Stopped"]
                 ELSE t
    ELSE s

\* motor_stall_check: TRUE when it calls motor_stopped()
stall_detected(s) ==
    /\ s.status \in Powered
    /\ s.movement_elapsed > HALL_SENSOR_GRACE_PERIOD
    /\ s.hall_sensor_1_idle_time + 1 > HALL_SENSOR_TIMEOUT
    /\ ~(s.status = "Stopping"
         /\ s.hall_sensor_1_idle_time + 1 < HALL_SENSOR_TIMEOUT_WHILE_STOPPING)

motor_stall_check(s) ==
    IF s.status \in Powered
    THEN LET c == [s EXCEPT !.hall_sensor_1_idle_time = @ + 1] IN
         IF stall_detected(s)
         THEN [motor_stopped(c) EXCEPT !.hall_sensor_1_idle_time = 0]
         ELSE c
    ELSE IF s.status = "CalibratingEndPoint"
         THEN IF s.endpoint_elapsed > ENDPOINT_CALIBRATION_PERIOD
              THEN [s EXCEPT !.status = "Stopped", !.calibrating = FALSE, !.location = 0]
              ELSE s
         ELSE s

\* SysTick_Handler: the tick counter advances, then motor_stall_check runs
advance_clock(s) ==
    [s EXCEPT !.movement_elapsed = Min(@ + 1, HALL_SENSOR_GRACE_PERIOD + 1),
              !.endpoint_elapsed = IF s.status = "CalibratingEndPoint"
                                   THEN Min(@ + 1, ENDPOINT_CALIBRATION_PERIOD + 1)
                                   ELSE @]

SysTick_Handler(s) == motor_stall_check(advance_clock(s))

\* ---------------------------------------------------------------- regulator
\* the compare register of the channel selected by direction (lines 359-362, 373-376)
write_compare(s) ==
    IF s.direction = "Up" THEN [s EXCEPT !.CCR4 = s.curr_pwm]
                          ELSE [s EXCEPT !.CCR1 = s.curr_pwm]

\* motor_adjust_rpm, one statement: the state, the next position and the local
\* speed (uint32_t; target_speed is converted to unsigned in the differences)
motor_adjust_rpm_stmt(s, pc, sp) ==
    CASE pc = "idle" ->
           IF s.status \in Powered THEN [s |-> s, pc |-> "rpm", speed |-> 0]
                                   ELSE [s |-> s, pc |-> "idle", speed |-> 0]
      [] pc = "rpm" -> [s |-> s, pc |-> "inc", speed |-> get_rpm(s)]
      [] pc = "inc" ->
           IF sp < s.target_speed /\ s.curr_pwm < PWM_CEILING
           THEN [s |-> [s EXCEPT !.curr_pwm = (@ + 1) % U8], pc |-> "inc2", speed |-> sp]
           ELSE [s |-> s, pc |-> "dec", speed |-> sp]
      [] pc = "inc2" ->
           [s |-> IF UGt(s.target_speed - sp, 2)
                  THEN [s EXCEPT !.curr_pwm = (@ + 1) % U8] ELSE s,
            pc |-> "incw", speed |-> sp]
      [] pc = "incw" -> [s |-> write_compare(s), pc |-> "dec", speed |-> sp]
      [] pc = "dec" ->
           IF sp > s.target_speed /\ s.curr_pwm > 1
           THEN [s |-> [s EXCEPT !.curr_pwm = (@ - 1) % U8], pc |-> "dec2", speed |-> sp]
           ELSE [s |-> s, pc |-> "idle", speed |-> 0]
      [] pc = "dec2" ->
           [s |-> IF UGt(sp - s.target_speed, 2)
                  THEN [s EXCEPT !.curr_pwm = (@ - 1) % U8] ELSE s,
            pc |-> "dec3", speed |-> sp]
      [] pc = "dec3" ->
           [s |-> IF UGt(sp - s.target_speed, 4)
                  THEN [s EXCEPT !.curr_pwm = (@ - 1) % U8] ELSE s,
            pc |-> "decw", speed |-> sp]
      [] pc = "decw" -> [s |-> write_compare(s), pc |-> "idle", speed |-> 0]

\* ---------------------------------------------------------------- settings store
\* eeprom_var_t
MAX_CURTAIN_LEN_EEPROM == 0
FULL_CURTAIN_LEN_EEPROM == 1
MINIMUM_VOLTAGE_EEPROM == 2
DEFAULT_SPEED_EEPROM == 3
AUTO_CAL_EEPROM == 4
NB_OF_VAR == 5

Slots == 0..(NB_OF_VAR - 1)

\* a slot that was never written: EE_ReadVariable returns non-zero and leaves
\* its output argument alone
NoValue == -1

\* the emulated EEPROM holds 16-bit values
U16 == 2^16

\* EE_WriteVariable(VirtAddVarTab[var], value)
EE_WriteVariable(st, var, value) ==
    [st EXCEPT !.ee[var] = value % U16,
               !.written = Append(@, <<var, value % U16>>)]

\* a motor_write_setting that stores while the motor runs
motor_write_setting_any_status(s, st, var, value, tmp_equal) ==
    LET differs == IF st.ee[var] = NoValue THEN ~tmp_equal
                   ELSE st.ee[var] # value % U16
    IN IF differs THEN EE_WriteVariable(st, var, value) ELSE st

\* motor_write_setting(var, value) on the store st = [ee, written].  The
\* argument is a uint16_t.  When the slot was never written the comparison
\* reads the uninitialised tmp: tmp_equal is its outcome.
motor_write_setting(s, st, var, value, tmp_equal) ==
    LET differs == IF st.ee[var] = NoValue THEN ~tmp_equal
                   ELSE st.ee[var] # value % U16
    IN IF s.status = "Stopped" /\ differs
       THEN EE_WriteVariable(st, var, value)
       ELSE st

\* one if/else of motor_load_settings: read slot var; when absent take the
\* default and store it in slot target
load_setting(ld, var, target, field, default, width) ==
    IF ld.st.ee[var] = NoValue
    THEN [s |-> [ld.s EXCEPT ![field] = default],
          st |-> EE_WriteVariable(ld.st, target, default)]
    ELSE [ld EXCEPT !.s[field] = ld.st.ee[var] % width]

\* motor_load_settings: [s, st] after the five reads.  Line 162 stores the
\* default of the maximum length in the slot of the full length.
motor_load_settings(s, ee) ==
    LET l0 == [s |-> s, st |-> [ee |-> ee, written |-> <<>>]]
        l1 == load_setting(l0, MAX_CURTAIN_LEN_EEPROM, FULL_CURTAIN_LEN_EEPROM,
                           "max_curtain_length", DEFAULT_FULL_CURTAIN_LEN, U16)
        l2 == load_setting(l1, FULL_CURTAIN_LEN_EEPROM, FULL_CURTAIN_LEN_EEPROM,
                           "full_curtain_length", DEFAULT_FULL_CURTAIN_LEN, U16)
        l3 == load_setting(l2, MINIMUM_VOLTAGE_EEPROM, MINIMUM_VOLTAGE_EEPROM,
                           "minimum_voltage", DEFAULT_MINIMUM_VOLTAGE, U16)
        l4 == load_setting(l3, DEFAULT_SPEED_EEPROM, DEFAULT_SPEED_EEPROM,
                           "default_speed", DEFAULT_TARGET_SPEED, U8)
    IN load_setting(l4, AUTO_CAL_EEPROM, AUTO_CAL_EEPROM,
                    "auto_calibration", DEFAULT_AUTO_CAL_SETTING, U8)

\* ---------------------------------------------------------------- dispatcher
\* position100_to_location for the percentage num/den (max_curtain_length below 2^31)
position100_to_location(s, num, den) ==
    IF num > 100 * den THEN s.max_curtain_length
    ELSE (num * s.max_curtain_length) \div (den * 100)

\* lines 766-770, 777-781, 797-801: choose the direction against the location
go_to(s, target) ==
    [s EXCEPT !.target_location = target,
              !.command = IF target < s.location THEN "MotorUp" ELSE "MotorDown"]

\* handle_command, the effect on the motor state of opcode cmd1:cmd2 (reply
\* frames and the settings store leave the motor state alone)
handle_command(s, cmd1, cmd2) ==
    LET cmd == cmd1 * 256 + cmd2
        hi == (cmd1 \div 16) * 16
        payload == (cmd1 % 16) * 256 + cmd2
    IN
    CASE cmd = CMD_UP -> [s EXCEPT !.target_location = -1, !.command = "MotorUp"]
      [] cmd = CMD_DOWN ->
           [s EXCEPT !.target_location = s.max_curtain_length,
                     !.command = "MotorDown"]
      [] cmd = CMD_UP_17 ->
           [s EXCEPT !.target_location = Max(s.location - DEG_TO_LOCATION(17), 0),
                     !.command = "MotorUp"]
      [] cmd = CMD_DOWN_17 ->
           LET t == s.location + DEG_TO_LOCATION(17) IN
           [s EXCEPT !.target_location =
                        IF UGt(t, s.max_curtain_length)
                        THEN s.max_curtain_length ELSE t,
                     !.command = "MotorDown"]
      [] cmd = CMD_STOP -> [s EXCEPT !.command = "Stop"]
      [] cmd = CMD_OVERRIDE_UP_90 ->
           [s EXCEPT !.target_location = s.location - DEG_TO_LOCATION(90),
                     !.command = "MotorUp"]
      [] cmd = CMD_OVERRIDE_DOWN_90 ->
           [s EXCEPT !.target_location = s.location + DEG_TO_LOCATION(90),
                     !.command = "MotorDown"]
      [] cmd = CMD_OVERRIDE_UP_6 ->
           [s EXCEPT !.target_location = s.location - DEG_TO_LOCATION(6),
                     !.command = "MotorUp"]
      [] cmd = CMD_OVERRIDE_DOWN_6 ->
           [s EXCEPT !.target_location = s.location + DEG_TO_LOCATION(6),
                     !.command = "MotorDown"]
      [] cmd = CMD_SET_FULL_CURTAIN_LENGTH ->
           [s EXCEPT !.full_curtain_length = s.location,
                     !.max_curtain_length = s.location]
      [] cmd = CMD_SET_MAX_CURTAIN_LENGTH ->
           [s EXCEPT !.max_curtain_length = s.location]
      [] cmd = CMD_RESET_CURTAIN_LENGTH ->
           [s EXCEPT !.max_curtain_length = s.full_curtain_length,
                     !.calibrating = TRUE]
      [] cmd = CMD_EXT_OVERRIDE_DOWN ->
           [s EXCEPT !.target_location = s.location + DEG_TO_LOCATION(360 * 5),
                     !.command = "MotorDown"]
      [] OTHER ->
           IF cmd1 = CMD_EXT_SET_SPEED
           THEN IF cmd2 > 1
                THEN [s EXCEPT !.default_speed = cmd2,
                               !.target_speed = IF @ # 0 THEN cmd2 ELSE @]
                ELSE s
           ELSE IF cmd1 = CMD_EXT_SET_DEFAULT_SPEED
           THEN IF cmd2 > 0 THEN [s EXCEPT !.default_speed = cmd2] ELSE s
           ELSE IF cmd1 = CMD_GO_TO
           THEN IF ~s.calibrating
                THEN go_to(s, position100_to_location(s, cmd2, 1))
                ELSE s
           ELSE IF hi = CMD_EXT_GO_TO
           THEN IF ~s.calibrating
                THEN go_to(s, position100_to_location(s, payload, 16))
                ELSE s
           ELSE IF hi = CMD_EXT_SET_LOCATION
           THEN [s EXCEPT !.location = (payload * 2) % 2^16, !.calibrating = FALSE]
           ELSE IF cmd1 = CMD_EXT_SET_MINIMUM_VOLTAGE
           THEN [s EXCEPT !.minimum_voltage = cmd2]
           ELSE IF cmd1 = CMD_EXT_SET_AUTO_CAL
           THEN [s EXCEPT !.auto_calibration = cmd2]
           ELSE IF hi = CMD_EXT_GO_TO_LOCATION
           THEN go_to(s, payload * 2)
           ELSE IF cmd1 = CMD_EXT_SET_SLOWDOWN_FACTOR
           THEN [s EXCEPT !.slowdown_factor = cmd2]
           ELSE IF cmd1 = CMD_EXT_SET_MIN_SLOWDOWN_SPEED
           THEN [s EXCEPT !.min_slowdown_speed = cmd2]
           ELSE s

\* handle_command, the calls of motor_write_setting: the store [ee, written]
\* after the frame.  tmp_equal[1], tmp_equal[2] are the outcomes of the
\* comparisons with an uninitialised tmp in the first and the second call.
handle_command_store(s, ee, cmd1, cmd2, tmp_equal) ==
    LET cmd == cmd1 * 256 + cmd2
        st == [ee |-> ee, written |-> <<>>]
    IN
    CASE cmd = CMD_SET_FULL_CURTAIN_LENGTH ->
           motor_write_setting(s,
               motor_write_setting(s, st, FULL_CURTAIN_LEN_EEPROM, s.location, tmp_equal[1]),
               MAX_CURTAIN_LEN_EEPROM, s.location, tmp_equal[2])
      [] cmd = CMD_SET_MAX_CURTAIN_LENGTH ->
           motor_write_setting(s, st, MAX_CURTAIN_LEN_EEPROM, s.location, tmp_equal[1])
      [] cmd = CMD_RESET_CURTAIN_LENGTH ->
           motor_write_setting(s, st, MAX_CURTAIN_LEN_EEPROM, s.full_curtain_length,
                               tmp_equal[1])
      [] cmd1 = CMD_EXT_SET_DEFAULT_SPEED /\ cmd2 > 0 ->
           motor_write_setting(s, st, DEFAULT_SPEED_EEPROM, cmd2, tmp_equal[1])
      [] cmd1 = CMD_EXT_SET_MINIMUM_VOLTAGE ->
           motor_write_setting(s, st, MINIMUM_VOLTAGE_EEPROM, cmd2, tmp_equal[1])
      [] cmd1 = CMD_EXT_SET_AUTO_CAL ->
           motor_write_setting(s, st, AUTO_CAL_EEPROM, cmd2, tmp_equal[1])
      [] OTHER -> st

\* ---------------------------------------------------------------- replies
\* location_to_position100: the float returned, as the fraction num / den.
\* den = 0 is the quotient 0.0 / 0 of line 226; a negative den stands for the
\* uint32_t den + 2^32.  The comparison of line 223 is unsigned.
location_to_position100(s) ==
    IF s.calibrating THEN [num |-> 50, den |-> 1]
    ELSE IF s.location < 0 THEN [num |-> 0, den |-> 1]
    ELSE IF UGt(s.location, s.max_curtain_length) THEN [num |-> 100, den |-> 1]
    ELSE [num |-> 100 * s.location, den |-> s.max_curtain_length]

\* the conversion of the float p * scale to an integer type; the conversion
\* of a NaN is undefined: nan is what it yields
float_to_int(p, scale, nan) ==
    IF p.den = 0 THEN nan
    ELSE IF p.den < 0 THEN 0
    ELSE (p.num * scale) \div p.den

RECURSIVE Xor(_, _)
Xor(a, b) ==
    IF a = 0 THEN b
    ELSE IF b = 0 THEN a
    ELSE ((a + b) % 2) + 2 * Xor(a \div 2, b \div 2)

\* tx_buffer[i] ^ ... ^ tx_buffer[j]
RECURSIVE xor_bytes(_, _, _)
xor_bytes(buf, i, j) == IF i > j THEN 0 ELSE Xor(buf[i], xor_bytes(buf, i + 1, j))

\* a reply whose checksum covers the frame type byte as well
reply_checks_type(tx, first, bytes) ==
    LET n == first + Len(bytes)
        filled == [i \in DOMAIN tx.tx_buffer |->
                      IF i >= first /\ i < n THEN bytes[i - first + 1] % U8
                      ELSE tx.tx_buffer[i]]
    IN [tx_buffer |-> [filled EXCEPT ![n] = xor_bytes(filled, 2, n - 1)],
        tx_bytes |-> n + 1]

\* the stores of one reply: bytes go to tx_buffer[first ..], each truncated to
\* uint8_t, then the XOR of tx_buffer[3 ..] and the length
reply(tx, first, bytes) ==
    LET n == first + Len(bytes)
        filled == [i \in DOMAIN tx.tx_buffer |->
                      IF i >= first /\ i < n THEN bytes[i - first + 1] % U8
                      ELSE tx.tx_buffer[i]]
    IN [tx_buffer |-> [filled EXCEPT ![n] = xor_bytes(filled, 3, n - 1)],
        tx_bytes |-> n + 1]

\* enum motor_status as a number
status_code(s) ==
    CASE s.status = "Stopped" -> 0
      [] s.status = "Moving" -> 1
      [] s.status = "Stopping" -> 2
      [] s.status = "CalibratingEndPoint" -> 3
      [] OTHER -> 4

\* handle_command, the reply: tx = [tx_buffer, tx_bytes] after the frame.
\* in.voltage, in.current are the ADC readings, in.counter stands for the
\* debug counters and tick snapshots of lines 82-85, in.nan for the outcome
\* of converting a NaN.
handle_command_reply(s, tx, cmd1, cmd2, in) ==
    LET cmd == cmd1 * 256 + cmd2 IN
    CASE cmd = CMD_GET_STATUS ->
           reply(tx, 2, <<216, 18, in.voltage \div 16, get_rpm(s),
                          float_to_int(location_to_position100(s), 1, in.nan)>>)
      [] cmd = CMD_EXT_GET_VERSION ->
           reply(tx, 0, <<0, 255, 208, VERSION_MAJOR, VERSION_MINOR,
                          s.minimum_voltage, s.default_speed>>)
      [] cmd = CMD_EXT_DEBUG ->
           reply(tx, 0, <<0, 255, 210, 0, s.dir_error, in.counter, in.ticks, 0>>)
      [] cmd = CMD_EXT_SENSOR_DEBUG ->
           reply(tx, 0, <<0, 255, 211, in.ticks \div 256, in.ticks % 256,
                          in.counter \div 256, in.counter % 256, 0>>)
      [] cmd = CMD_EXT_GET_LOCATION ->
           reply(tx, 2, <<209, s.location \div 256, s.location % 256,
                          s.target_location \div 256, s.target_location % 256>>)
      [] cmd = CMD_EXT_GET_STATUS ->
           LET pos == float_to_int(location_to_position100(s), 256, in.nan) IN
           reply(tx, 2, <<218, status_code(s), in.current, get_rpm(s),
                          pos \div 256, pos % 256>>)
      [] cmd = CMD_EXT_GET_LIMITS ->
           reply(tx, 0, <<0, 255, 219, IF s.calibrating THEN 1 ELSE 0,
                          s.max_curtain_length \div 256, s.max_curtain_length % 256,
                          s.full_curtain_length \div 256, s.full_curtain_length % 256>>)
      [] OTHER -> tx

\* ---------------------------------------------------------------- boot
\* the globals as declared (lines 11-85), the settings at their defaults
\* (motor_set_default_settings), the bridge outputs at reset
power_on(auto_cal) ==
    [status |-> "Stopped", direction |-> "None",
     target_location |-> 0, location |-> 0,
     full_curtain_length |-> DEFAULT_FULL_CURTAIN_LEN,
     max_curtain_length |-> DEFAULT_FULL_CURTAIN_LEN,
     minimum_voltage |-> DEFAULT_MINIMUM_VOLTAGE,
     default_speed |-> DEFAULT_TARGET_SPEED,
     auto_calibration |-> auto_cal,
     target_speed |-> 0, curr_pwm |-> 0,
     calibrating |-> FALSE,
     hall_sensor_1_idle_time |-> 0,
     hall_sensor_1_ticks |-> 0, hall_sensor_2_ticks |-> 0,
     hall_sensor_1_interval |-> 0,
     movement_elapsed |-> 0, endpoint_elapsed |-> 0,
     rotor_position |-> -1,
     min_slowdown_speed |-> DEFAULT_MINIMUM_SLOWDOWN_SPEED,
     slowdown_factor |-> DEFAULT_SLOWDOWN_FACTOR,
     command |-> "NoCommand",
     dir_error |-> 0,
     HIGH_1 |-> FALSE, HIGH_2 |-> FALSE,
     LOW1_PWM |-> FALSE, LOW2_PWM |-> FALSE,
     CCR1 |-> 0, CCR4 |-> 0]

\* a motor_init that does not queue the calibration run
motor_init_idle(s) ==
    LET t == [motor_stop(s) EXCEPT !.location = s.max_curtain_length] IN
    IF t.auto_calibration # 0
    THEN [t EXCEPT !.calibrating = TRUE, !.command = "NoCommand"]
    ELSE [t EXCEPT !.calibrating = FALSE, !.command = "NoCommand"]

motor_init(s) ==
    LET t == [motor_stop(s) EXCEPT !.location = s.max_curtain_length] IN
    IF t.auto_calibration # 0
    THEN [t EXCEPT !.calibrating = TRUE, !.command = "MotorUp"]
    ELSE [t EXCEPT !.calibrating = FALSE, !.command = "NoCommand"]

\* ---------------------------------------------------------------- actions
Idle == [cmd |-> "NoCommand", at |-> 0]

\* main-loop positions inside a motor_process branch
AtDelay == NStop + 1       \* HAL_Delay(10) of motor_start_common
AtStart == NStop + 2       \* first of 4 statements of motor_start_common
AtDrive == NStop + 6       \* first of 4 statements of motor_up / motor_down
AtClearStart == NStop + 10 \* command = NoCommand after motor_up / motor_down
AtClearStop == NStop + 1   \* command = NoCommand after motor_stop

\* no straight-line code is in flight (HAL_Delay lasts 10 ms: ticks pass freely)
Quiet(pm, pa) ==
    /\ pa = "idle"
    /\ \/ pm.at = 0
       \/ pm.cmd # "Stop" /\ pm.at = AtDelay

\* between two calls of motor_process, no handler in flight
AtRest == pc_main.at = 0 /\ pc_adj = "idle"

\* an interrupt may fall into the code in flight; the count after it has
MayPreempt == Quiet(pc_main, pc_adj) \/ preempts < MaxPreempt
Preempted == IF Quiet(pc_main, pc_adj) THEN 0 ELSE preempts + 1

Opcode(cmd) == <<cmd \div 256, cmd % 256>>

\* the frames the UART delivers
Commands ==
    { Opcode(CMD_UP), Opcode(CMD_DOWN), Opcode(CMD_STOP),
      <<CMD_EXT_GO_TO_LOCATION, 0>>, <<CMD_EXT_SET_LOCATION, 0>>,
      <<CMD_EXT_SET_SPEED, DEFAULT_TARGET_SPEED + 3>> }

\* the runs explored: <<Hall edges, UART frames, SysTicks, regulator interrupts>>
\* the environment delivers (-1: unlimited)
Travel == <<MaxHallEdges, MaxFrames, 0, MaxAdjusts>>
Stall == <<MaxHallEdges - 1, MaxFrames, StallTicks, 0>>
Calibration == <<MaxHallEdges - 1, 1, MaxTicks, MaxAdjusts>>

Profiles == {Travel, Stall, Calibration}

\* the store that holds the settings in use
stored_settings(s) ==
    [v \in Slots |->
        CASE v = MAX_CURTAIN_LEN_EEPROM -> s.max_curtain_length % U16
          [] v = FULL_CURTAIN_LEN_EEPROM -> s.full_curtain_length % U16
          [] v = MINIMUM_VOLTAGE_EEPROM -> s.minimum_voltage % U16
          [] v = DEFAULT_SPEED_EEPROM -> s.default_speed
          [] v = AUTO_CAL_EEPROM -> s.auto_calibration]

\* no frame received, no reply written
NoTraffic ==
    /\ rx_buffer = <<0, 0>>
    /\ tx_buffer = [i \in 0..8 |-> 0]
    /\ tx_bytes = 0
    /\ written = <<>>

Boot(profiles) ==
    /\ m \in { motor_init(power_on(a)) : a \in {0, 1} }
    /\ eeprom = stored_settings(m)
    /\ NoTraffic
    /\ pc_main = Idle
    /\ motor_speed = 0
    /\ pc_adj = "idle"
    /\ speed = 0
    /\ preempts = 0
    /\ \E p \in profiles :
          /\ hall_left = p[1]
          /\ uart_left = p[2]
          /\ tick_left = p[3]
          /\ adj_left = p[4]
    /\ ev = "boot"

Init == Boot(Profiles)

\* motor_process reads the mailbox and enters a branch
MainEnter ==
    /\ pc_adj = "idle"
    /\ pc_main.at = 0
    /\ m.command # "NoCommand"
    /\ pc_main' = [cmd |-> m.command, at |-> 1]
    /\ motor_speed' = IF m.command = "Stop" THEN 0 ELSE m.default_speed
    /\ ev' = "main"
    /\ UNCHANGED <<m, pc_adj, speed, preempts, env, io>>

\* one statement of motor_stop, called by motor_process or motor_start_common
MainStop ==
    /\ pc_adj = "idle"
    /\ pc_main.at \in 1..NStop
    /\ m' = motor_stop_stmt(m, pc_main.at)
    /\ pc_main' = [pc_main EXCEPT !.at = @ + 1]
    /\ preempts' = IF Quiet(pc_main', pc_adj) THEN 0 ELSE preempts
    /\ ev' = "main"
    /\ UNCHANGED <<motor_speed, pc_adj, speed, env, io>>

\* HAL_Delay(10) returns
MainDelay ==
    /\ pc_adj = "idle"
    /\ pc_main.cmd \in {"MotorUp", "MotorDown"}
    /\ pc_main.at = AtDelay
    /\ pc_main' = [pc_main EXCEPT !.at = AtStart]
    /\ ev' = "main"
    /\ UNCHANGED <<m, motor_speed, pc_adj, speed, preempts, env, io>>

\* one statement of motor_start_common after the delay
MainStart ==
    /\ pc_adj = "idle"
    /\ pc_main.cmd \in {"MotorUp", "MotorDown"}
    /\ pc_main.at \in AtStart..(AtDrive - 1)
    /\ m' = motor_start_common_stmt(m, pc_main.at - AtStart + 1, motor_speed)
    /\ pc_main' = [pc_main EXCEPT !.at = @ + 1]
    /\ ev' = "main"
    /\ UNCHANGED <<motor_speed, pc_adj, speed, preempts, env, io>>

\* one statement of motor_up / motor_down after motor_start_common
MainDrive ==
    /\ pc_adj = "idle"
    /\ pc_main.cmd \in {"MotorUp", "MotorDown"}
    /\ pc_main.at \in AtDrive..(AtClearStart - 1)
    /\ m' = IF pc_main.cmd = "MotorUp"
            THEN motor_up_stmt(m, pc_main.at - AtDrive + 1)
            ELSE motor_down_stmt(m, pc_main.at - AtDrive + 1)
    /\ pc_main' = [pc_main EXCEPT !.at = @ + 1]
    /\ ev' = "main"
    /\ UNCHANGED <<motor_speed, pc_adj, speed, preempts, env, io>>

\* command = NoCommand, the last statement of each branch of motor_process
MainClear ==
    /\ pc_adj = "idle"
    /\ \/ pc_main.cmd = "Stop" /\ pc_main.at = AtClearStop
       \/ pc_main.cmd \in {"MotorUp", "MotorDown"} /\ pc_main.at = AtClearStart
    /\ m' = [m EXCEPT !.command = "NoCommand"]
    /\ pc_main' = Idle
    /\ motor_speed' = 0
    /\ preempts' = 0
    /\ ev' = "main"
    /\ UNCHANGED <<pc_adj, speed, env, io>>

\* TIM3: one statement of motor_adjust_rpm (an entry that finds the motor
\* unpowered returns at once and is not a step)
Adjust ==
    /\ pc_adj = "idle" =>
          /\ m.status \in Powered
          /\ Abs(m.curr_pwm - INITIAL_PWM) <= PwmDrift
          /\ adj_left # 0
          /\ MayPreempt
    /\ adj_left' = IF pc_adj = "idle" THEN Spend(adj_left) ELSE adj_left
    /\ LET r == motor_adjust_rpm_stmt(m, pc_adj, speed) IN
          /\ m' = r.s
          /\ pc_adj' = r.pc
          /\ speed' = r.speed
    /\ preempts' = IF Quiet(pc_main, pc_adj') THEN 0
                   ELSE IF pc_adj = "idle" /\ ~Quiet(pc_main, pc_adj)
                        THEN preempts + 1 ELSE preempts
    /\ ev' = "adj"
    /\ UNCHANGED <<pc_main, motor_speed, hall_left, uart_left, tick_left, io>>

\* SysTick, every 1 ms
Tick ==
    /\ tick_left # 0
    /\ MayPreempt
    /\ tick_left' = Spend(tick_left)
    /\ m' = SysTick_Handler(m)
    /\ preempts' = Preempted
    /\ ev' = IF stall_detected(advance_clock(m)) THEN "stall" ELSE "tick"
    /\ UNCHANGED <<pc_main, motor_speed, pc_adj, speed, hall_left, uart_left, adj_left, io>>

\* the edge makes process_location call motor_stop()
hall_stops(s, sensor, value) ==
    /\ s.rotor_position # -1
    /\ \/ /\ hall_diff(s, sensor, value) = 1
          /\ s.direction # "Down"
          /\ process_location_stops(s, "Up")
       \/ /\ hall_diff(s, sensor, value) = 3
          /\ s.direction # "Up"
          /\ process_location_stops(s, "Down")

\* EXTI: an edge of Hall sensor `sensor` to level `value`
Hall(sensor, value) ==
    /\ hall_left # 0
    /\ MayPreempt
    /\ preempts' = Preempted
    /\ LET t == hall_sensor_callback(m, sensor, value) IN
          /\ t.location \in (0 - LocBelow)..LocAbove
          /\ t.dir_error <= MaxDirError
          /\ m' = t
    /\ hall_left' = Spend(hall_left)
    /\ ev' = IF hall_stops(m, sensor, value) THEN "hall_stop" ELSE "hall"
    /\ UNCHANGED <<pc_main, motor_speed, pc_adj, speed, uart_left, tick_left, adj_left, io>>

\* the opcodes answered with a reply
ReplyOpcodes ==
    { Opcode(CMD_GET_STATUS), Opcode(CMD_EXT_GET_VERSION), Opcode(CMD_EXT_GET_LOCATION),
      Opcode(CMD_EXT_GET_STATUS), Opcode(CMD_EXT_GET_LIMITS), Opcode(CMD_EXT_DEBUG),
      Opcode(CMD_EXT_SENSOR_DEBUG) }

\* what a reply reads from outside the motor state: ADC readings, the debug
\* counters, the outcome of converting a NaN
Samples == {Sample1, Sample2}
Read(used) == IF used THEN Samples ELSE {0}
Inputs(c) ==
    [voltage : Read(c = Opcode(CMD_GET_STATUS)),
     current : Read(c = Opcode(CMD_EXT_GET_STATUS)),
     counter : Read(c \in {Opcode(CMD_EXT_DEBUG), Opcode(CMD_EXT_SENSOR_DEBUG)}),
     ticks : Read(c \in {Opcode(CMD_EXT_DEBUG), Opcode(CMD_EXT_SENSOR_DEBUG)}),
     nan : Read(c \in {Opcode(CMD_GET_STATUS), Opcode(CMD_EXT_GET_STATUS)}
                /\ location_to_position100(m).den = 0)]

\* outcomes of the comparisons with an uninitialised tmp (they are read only
\* when a slot was never written)
Uninitialised ==
    IF \E v \in Slots : eeprom[v] = NoValue
    THEN BOOLEAN \X BOOLEAN
    ELSE {<<FALSE, FALSE>>}

\* UART RX: a frame with opcode bytes c
Uart(c) ==
    /\ ev # "reset"
    /\ uart_left # 0
    /\ MayPreempt
    /\ preempts' = Preempted
    /\ rx_buffer' = c
    /\ m' = handle_command(m, c[1], c[2])
    /\ \E tmp_equal \in Uninitialised :
          LET st == handle_command_store(m, eeprom, c[1], c[2], tmp_equal) IN
          /\ eeprom' = st.ee
          /\ written' = st.written
    /\ \E in \in Inputs(c) :
          LET tx == handle_command_reply(m, [tx_buffer |-> tx_buffer, tx_bytes |-> tx_bytes],
                                         c[1], c[2], in) IN
          /\ tx_buffer' = tx.tx_buffer
          /\ tx_bytes' = tx.tx_bytes
    /\ uart_left' = Spend(uart_left)
    /\ ev' = "uart"
    /\ UNCHANGED <<pc_main, motor_speed, pc_adj, speed, hall_left, tick_left, adj_left>>

\* the Hall edge that turns the rotor one step: d = 1 up, d = 3 down
next_edge(s, d) ==
    CHOOSE e \in {HALL_1_SENSOR, HALL_2_SENSOR} \X {0, 1} :
        new_rotor_position(e[1], e[2]) =
            IF s.rotor_position = -1 THEN 0 ELSE (s.rotor_position + d) % 4

RECURSIVE spin(_, _, _)
spin(s, n, d) ==
    IF n = 0 THEN s
    ELSE LET e == next_edge(s, d) IN spin(hall_sensor_callback(s, e[1], e[2]), n - 1, d)

\* EXTI: n Hall edges in a row between two calls of motor_process, the rotor
\* turning one way (the blind pulled by hand, or driven)
Spin(n, d) ==
    /\ ev # "reset"
    /\ pc_main.at = 0
    /\ pc_adj = "idle"
    /\ hall_left >= n
    /\ hall_left' = hall_left - n
    /\ m' = spin(m, n, d)
    /\ ev' = "hall"
    /\ UNCHANGED <<pc_main, motor_speed, pc_adj, speed, preempts, uart_left, tick_left, adj_left, io>>

\* power-up: main() loads the settings and calls motor_init
PowerUp ==
    /\ ev = "reset"
    /\ LET ld == motor_load_settings(m, eeprom) IN
          /\ m' = motor_init(ld.s)
          /\ eeprom' = ld.st.ee
          /\ written' = ld.st.written
    /\ ev' = "boot"
    /\ UNCHANGED <<pc_main, motor_speed, pc_adj, speed, preempts, env, rx_buffer, tx_buffer, tx_bytes>>

Main == MainEnter \/ MainStop \/ MainDelay \/ MainStart \/ MainDrive \/ MainClear

HallEdge == \E sensor \in {HALL_1_SENSOR, HALL_2_SENSOR}, value \in {0, 1} : Hall(sensor, value)

Next ==
    \/ MainEnter
    \/ MainStop
    \/ MainDelay
    \/ MainStart
    \/ MainDrive
    \/ MainClear
    \/ Adjust
    \/ Tick
    \/ HallEdge
    \/ \E c \in Commands : Uart(c)

Spec == Init /\ [][Next]_vars

\* Runs for the properties of progress.  In BootRun the Hall edges cease and
\* no frame arrives, SysTicks and regulator interrupts keep coming; FrameRun
\* is a run with a frame.
BootRun == <<MaxHallEdges - 1, 0, -1, -1>>
FrameRun == <<0, 1, -1, 0>>

InitLive == Boot({BootRun, FrameRun})

\* The main loop calls motor_process forever, SysTick and TIM3 are periodic
\* hardware timers, and an interrupt handler in flight runs to its end.
LiveSpec ==
    /\ InitLive
    /\ [][Next]_vars
    /\ WF_vars(Main)
    /\ WF_vars(Tick)
    /\ WF_vars(Adjust)

\* Runs of the command interface: the store found at power-up is any
\* combination of slots never written and slots written earlier; frames
\* arrive while the main loop executes the mailbox; the rotor turns in bursts
\* of Hall edges.  No SysTick and no regulator interrupt falls into these runs.
Stored ==
    [v \in Slots |->
        CASE v = MAX_CURTAIN_LEN_EEPROM -> DEFAULT_FULL_CURTAIN_LEN - 1
          [] v = FULL_CURTAIN_LEN_EEPROM -> DEFAULT_FULL_CURTAIN_LEN + 1
          [] v = MINIMUM_VOLTAGE_EEPROM -> DEFAULT_MINIMUM_VOLTAGE + 1
          [] v = DEFAULT_SPEED_EEPROM -> DEFAULT_TARGET_SPEED + 1
          [] v = AUTO_CAL_EEPROM -> 0]

Stores == { [v \in Slots |-> IF v \in absent THEN NoValue ELSE Stored[v]] : absent \in SUBSET Slots }

Frames ==
    { Opcode(CMD_SET_MAX_CURTAIN_LENGTH), Opcode(CMD_SET_FULL_CURTAIN_LENGTH),
      Opcode(CMD_RESET_CURTAIN_LENGTH),
      <<CMD_EXT_SET_DEFAULT_SPEED, DEFAULT_TARGET_SPEED + 2>>,
      <<CMD_EXT_SET_MINIMUM_VOLTAGE, DEFAULT_MINIMUM_VOLTAGE + 2>>,
      <<CMD_EXT_SET_AUTO_CAL, 0>>, <<CMD_EXT_SET_AUTO_CAL, 1>>,
      <<CMD_GO_TO, 50>>, <<CMD_EXT_GO_TO, 16>>, <<CMD_EXT_GO_TO_LOCATION, 1>>,
      <<CMD_EXT_SET_LOCATION, 0>>,
      Opcode(CMD_UP_17), Opcode(CMD_DOWN_17), Opcode(CMD_DOWN), Opcode(CMD_STOP) }
    \cup ReplyOpcodes

\* <<stores found at power-up, Hall edges, UART frames>>
LoadRun == <<Stores, 0, 1>>
CommandRun == <<{Stored, [v \in Slots |-> NoValue]}, MaxSpin, MaxFrames>>

InitFrames ==
    /\ m = power_on(0)
    /\ \E p \in {LoadRun, CommandRun} :
          /\ eeprom \in p[1]
          /\ hall_left = p[2]
          /\ uart_left = p[3]
    /\ NoTraffic
    /\ pc_main = Idle
    /\ motor_speed = 0
    /\ pc_adj = "idle"
    /\ speed = 0
    /\ preempts = 0
    /\ tick_left = 0
    /\ adj_left = 0
    /\ ev = "reset"

\* a frame received between two calls of motor_process
Frame(c) == AtRest /\ Uart(c)

NextFrames ==
    \/ PowerUp
    \/ MainEnter
    \/ MainStop
    \/ MainDelay
    \/ MainStart
    \/ MainDrive
    \/ MainClear
    \/ \E c \in Frames : Frame(c)
    \/ \E n \in 1..MaxSpin, d \in {1, 3} : Spin(n, d)

FrameSpec == InitFrames /\ [][NextFrames]_vars

\* Runs of the regulator: the motor has been started and TIM3 fires every
\* 10 ms; between two interrupts the Hall ISR has measured any of Intervals,
\* and Set speed frames change target_speed.
RECURSIVE motor_adjust_rpm_from(_, _, _)
motor_adjust_rpm_from(s, pc, sp) ==
    LET r == motor_adjust_rpm_stmt(s, pc, sp) IN
    IF r.pc = "idle" THEN r.s ELSE motor_adjust_rpm_from(r.s, r.pc, r.speed)

\* motor_adjust_rpm, run from entry to return
motor_adjust_rpm(s) == motor_adjust_rpm_from(s, "idle", 0)

RECURSIVE motor_start_from(_, _, _, _)
motor_start_from(s, dir, spd, k) ==
    IF k > 8 THEN s
    ELSE motor_start_from(
             IF k <= 4 THEN motor_start_common_stmt(s, k, spd)
             ELSE IF dir = "Up" THEN motor_up_stmt(s, k - 4)
                  ELSE motor_down_stmt(s, k - 4),
             dir, spd, k + 1)

\* motor_up(spd) / motor_down(spd), run from entry to return
motor_start(s, dir, spd) == motor_start_from(motor_stop(s), dir, spd, 1)

\* hall_sensor_1_interval values: none measured, a slow rotor, rotors at about
\* the default speed, a fast rotor
Intervals == {0, SlowInterval, SlowInterval \div 2, SlowInterval \div 4, SlowInterval \div 8}

Speeds == {DEFAULT_TARGET_SPEED - 3, DEFAULT_TARGET_SPEED + 3}

InitRegulator ==
    /\ m \in { motor_start(motor_init(power_on(0)), dir, DEFAULT_TARGET_SPEED) :
                  dir \in {"Up", "Down"} }
    /\ eeprom = stored_settings(m)
    /\ NoTraffic
    /\ pc_main = Idle
    /\ motor_speed = 0
    /\ pc_adj = "idle"
    /\ speed = 0
    /\ preempts = 0
    /\ hall_left = 0
    /\ uart_left = -1
    /\ tick_left = 0
    /\ adj_left = -1
    /\ ev = "main"

\* TIM3: motor_adjust_rpm with the interval i measured since the last run
Regulate(i) ==
    /\ m.status \in Powered
    /\ m' = motor_adjust_rpm([m EXCEPT !.hall_sensor_1_interval = i])
    /\ ev' = "adj"
    /\ UNCHANGED <<pc_main, motor_speed, pc_adj, speed, preempts, env, io>>

NextRegulator ==
    \/ \E i \in Intervals : Regulate(i)
    \/ \E v \in Speeds : Uart(<<CMD_EXT_SET_SPEED, v>>)

RegulatorSpec == InitRegulator /\ [][NextRegulator]_vars

\* Runs of an approach: frames that set the slowdown parameters and start a
\* motion arrive between two calls of motor_process, then Hall edges arrive
\* one by one, falling into the main loop's code as well.  No SysTick and no
\* regulator interrupt falls into these runs.
ApproachFrames ==
    { Opcode(CMD_UP), Opcode(CMD_DOWN),
      <<CMD_EXT_GO_TO_LOCATION, 0>>, <<CMD_EXT_SET_LOCATION, 0>>,
      <<CMD_EXT_SET_SLOWDOWN_FACTOR, 0>>, <<CMD_EXT_SET_SLOWDOWN_FACTOR, 1>>,
      <<CMD_EXT_SET_MIN_SLOWDOWN_SPEED, DEFAULT_TARGET_SPEED + 1>> }

ApproachRun == <<MaxHallEdges, MaxFrames, 0, 0>>

InitApproach == Boot({ApproachRun})

NextApproach ==
    \/ MainEnter
    \/ MainStop
    \/ MainDelay
    \/ MainStart
    \/ MainDrive
    \/ MainClear
    \/ HallEdge
    \/ \E c \in ApproachFrames : Frame(c)

ApproachSpec == InitApproach /\ [][NextApproach]_vars

\* ================================================================ properties
\* no gate asserted, no PWM channel running
BridgeOff(s) == ~s.HIGH_1 /\ ~s.HIGH_2 /\ ~s.LOW1_PWM /\ ~s.LOW2_PWM


\* ---------------------------------------------------------------- C1
\* C1: whenever status is Stopped, direction is None, curr_pwm is 0, both
\* high-side gates are de-asserted, both PWM channels are stopped and both
\* compare registers are 0.  Stated here only for the states in which no
\* handler is in flight, where a half-done motor_stop cannot be the excuse.
C1_StoppedIsDeEnergized ==
    AtRest /\ m.status = "Stopped" =>
        /\ m.direction = "None"
        /\ m.curr_pwm = 0
        /\ BridgeOff(m)
        /\ m.CCR1 = 0
        /\ m.CCR4 = 0

\* ---------------------------------------------------------------- C2
\* C2: whenever status is Moving or Stopping, exactly one high-side gate is
\* asserted, exactly one PWM channel is running and direction is not None.
\* Stated here only for the states in which no handler is in flight.
C2_PoweredDrivesOneSide ==
    AtRest /\ m.status \in Powered =>
        /\ m.HIGH_1 # m.HIGH_2
        /\ m.LOW1_PWM # m.LOW2_PWM
        /\ m.direction # "None"

\* ---------------------------------------------------------------- C3
\* what motor_stop leaves behind
StoppedPost(s) ==
    /\ s.CCR1 = 0 /\ s.CCR4 = 0
    /\ BridgeOff(s)
    /\ s.status = "Stopped"
    /\ s.direction = "None"
    /\ s.curr_pwm = 0
    /\ s.target_speed = 0
    /\ s.hall_sensor_1_interval = 0
    /\ s.hall_sensor_1_idle_time = 0
    /\ s.hall_sensor_1_ticks = 0
    /\ s.hall_sensor_2_ticks = 0

diff_taken == (4 + m'.rotor_position - m.rotor_position) % 4

HallStep == ev' \in {"hall", "hall_stop"}

MotorStopCalled == m'.status = "Stopped" /\ m'.direction = "None" /\ BridgeOff(m')

\* C4: with calibrating false, driving Up toward a target T # -1 from a
\* location above T+1, every up-phase Hall edge moves location down by one and
\* motor_stop() is called by the edge that brings location to T+1, and by no
\* earlier one; driving Down toward T from a location below T-1, every
\* down-phase edge moves location up by one and motor_stop() is called by the
\* edge that brings location to T-1.
C4_StopsOneBeforeTarget ==
    [][ HallStep /\ ~m.calibrating /\ m.rotor_position # -1 =>
          /\ ( /\ diff_taken = 1
               /\ m.direction = "Up"
               /\ m.target_location # -1
               /\ m.location > m.target_location + 1 ) =>
                  /\ m'.location = m.location - 1
                  /\ MotorStopCalled = (m'.location = m.target_location + 1)
                  /\ (ev' = "hall_stop") = MotorStopCalled
                  /\ ~MotorStopCalled => m'.direction = "Up"
          /\ ( /\ diff_taken = 3
               /\ m.direction = "Down"
               /\ m.location < m.target_location - 1 ) =>
                  /\ m'.location = m.location + 1
                  /\ MotorStopCalled = (m'.location = m.target_location - 1)
                  /\ (ev' = "hall_stop") = MotorStopCalled
                  /\ ~MotorStopCalled => m'.direction = "Down"
      ]_vars

\* an upward run from two or more above the target has been stopped at T+1
C4_Witness ==
    /\ ev = "hall_stop"
    /\ ~m.calibrating
    /\ m.target_location = 0
    /\ m.location = 1
    /\ m.status = "Stopped"

\* ---------------------------------------------------------------- C5
\* the bridge drives the motor upward and no handler is in flight
DrivenUp ==
    /\ AtRest
    /\ m.status \in Powered
    /\ m.direction = "Up"
    /\ m.HIGH_1 /\ m.LOW2_PWM /\ ~m.HIGH_2 /\ ~m.LOW1_PWM

\* C5 (first half): whenever target_location is -1 and the motor is driven
\* upward, with calibrating true or false, a detected stall moves status to
\* CalibratingEndPoint.
C5_UpStallCalibrates ==
    [][ ev' = "stall" /\ DrivenUp /\ m.target_location = -1 =>
            m'.status = "CalibratingEndPoint" ]_vars

\* ---------------------------------------------------------------- C6
\* a fresh boot with auto_calibration enabled, in a run without frames
BootCal == ev = "boot" /\ m.auto_calibration # 0 /\ uart_left = 0

EndPointFound == m.status = "Stopped" /\ ~m.calibrating /\ m.location = 0

\* C6: from a fresh boot with auto_calibration enabled and no command
\* received, motor_init has set location = max_curtain_length, calibrating
\* and the mailbox to MotorUp; motor_process starts the upward motion; once
\* the Hall edges cease, status passes through CalibratingEndPoint and then
\* reaches Stopped with calibrating false and location 0; and no Hall edge
\* received while calibrating changes location.
C6_BootCalibration ==
    /\ BootCal => /\ m.location = m.max_curtain_length
                  /\ m.calibrating
                  /\ m.command = "MotorUp"
    /\ BootCal ~> (m.status = "Moving" /\ m.direction = "Up" /\ m.HIGH_1 /\ m.LOW2_PWM)
    /\ BootCal ~> (m.status = "CalibratingEndPoint" /\ m.calibrating)
    /\ BootCal ~> EndPointFound
    /\ [][HallStep /\ m.calibrating => m'.location = m.location]_vars

\* the boot calibration has ended, after Hall edges were received
C6_Witness ==
    /\ EndPointFound
    /\ m.auto_calibration # 0
    /\ m.rotor_position # -1
    /\ m.endpoint_elapsed > ENDPOINT_CALIBRATION_PERIOD
    /\ m.command = "NoCommand"
    /\ ev = "tick"

\* ---------------------------------------------------------------- C7
TickStep == ev' \in {"tick", "stall"}

\* the Hall edge just taken came from Hall sensor 2
Hall2Step ==
    /\ HallStep
    /\ m'.rotor_position \in { new_rotor_position(HALL_2_SENSOR, v) : v \in {0, 1} }

\* the next SysTick stops the motor
StopDue(s) == stall_detected(advance_clock(s))

\* C7 (as stated, last clause): Hall-2 edges alone never postpone the
\* fail-safe stop: a stop that the next tick would make is still made by the
\* next tick after a Hall-2 edge.
C7_Hall2NeverPostpones ==
    [][ Hall2Step /\ AtRest /\ StopDue(m) =>
            StopDue(m') \/ m'.status \notin Powered ]_vars

\* C7 (amended): once the grace period has elapsed, the tick that takes
\* hall_sensor_1_idle_time above HALL_SENSOR_TIMEOUT with status Moving, or to
\* HALL_SENSOR_TIMEOUT_WHILE_STOPPING with status Stopping, de-energizes the
\* motor and takes status out of {Moving, Stopping}; so after the grace period
\* the idle time of a powered motor never exceeds these limits; and a Hall-2
\* edge never restarts the idle time or the grace period (it can only, by
\* making process_location set status to Stopping, move the limit from
\* HALL_SENSOR_TIMEOUT to HALL_SENSOR_TIMEOUT_WHILE_STOPPING).
C7_FailSafeStop ==
    /\ [][ /\ TickStep
           /\ m.status \in Powered
           /\ m'.movement_elapsed > HALL_SENSOR_GRACE_PERIOD
           /\ m.hall_sensor_1_idle_time + 1 > HALL_SENSOR_TIMEOUT
           /\ \/ m.status = "Moving"
              \/ m.hall_sensor_1_idle_time + 1 >= HALL_SENSOR_TIMEOUT_WHILE_STOPPING
           => /\ ev' = "stall"
              /\ m'.status \notin Powered
              /\ BridgeOff(m') ]_vars
    /\ [](m.status = "Moving" /\ m.movement_elapsed > HALL_SENSOR_GRACE_PERIOD =>
              m.hall_sensor_1_idle_time <= HALL_SENSOR_TIMEOUT)
    /\ [](m.status = "Stopping" /\ m.movement_elapsed > HALL_SENSOR_GRACE_PERIOD =>
              m.hall_sensor_1_idle_time <
                  Max(HALL_SENSOR_TIMEOUT + 1, HALL_SENSOR_TIMEOUT_WHILE_STOPPING))
    /\ [][ Hall2Step /\ ev' = "hall" =>
              /\ m'.hall_sensor_1_idle_time = m.hall_sensor_1_idle_time
              /\ m'.movement_elapsed = m.movement_elapsed ]_vars

\* a slowing-down motor has been stopped by the stall supervisor, after a
\* Hall-2 edge
C7_Witness ==
    /\ ev = "stall"
    /\ m.status = "Stopped"
    /\ m.rotor_position \in { new_rotor_position(HALL_2_SENSOR, v) : v \in {0, 1} }
    /\ BridgeOff(m)

\* ---------------------------------------------------------------- C8
\* the bridge drives the motor downward and no handler is in flight
DrivenDown ==
    /\ AtRest
    /\ m.status \in Powered
    /\ m.direction = "Down"
    /\ m.HIGH_2 /\ m.LOW1_PWM /\ ~m.HIGH_1 /\ ~m.LOW2_PWM

\* C8 (as stated, first clause): a stall detected while the motor is driven
\* downward puts status into Error.
C8_DownStallIsError ==
    [][ ev' = "stall" /\ DrivenDown => m'.status = "Error" ]_vars

\* C8 (amended): a stall detected while status is Moving and direction is
\* Down puts status into Error with the bridge de-energized (a stall while
\* status is Stopping ends in Stopped); while status is Error no gate is
\* asserted and no PWM channel runs, and no Hall edge, SysTick, regulator step
\* or received frame changes status: only the main loop, executing a command,
\* does.
C8_DownStallLatchesError ==
    /\ [][ ev' = "stall" /\ m.direction = "Down" =>
              /\ m.status = "Moving" => m'.status = "Error" /\ BridgeOff(m')
              /\ m.status = "Stopping" => m'.status = "Stopped" /\ BridgeOff(m') ]_vars
    /\ [](m.status = "Error" => BridgeOff(m))
    /\ [][ m.status = "Error" /\ m'.status # "Error" =>
              /\ ev' = "main"
              /\ pc_main.cmd # "NoCommand" ]_vars

\* the Error of a downward stall has outlasted a Hall edge
C8_Witness ==
    /\ m.status = "Error"
    /\ ev = "hall"
    /\ m.rotor_position # -1
    /\ m.target_location = m.max_curtain_length
    /\ BridgeOff(m)

\* ---------------------------------------------------------------- C9
\* C9 (as stated): in an upward phase sequence (rotor_position known,
\* calibrating false, direction not Down) location goes down by one per
\* Hall-1 edge, and in a downward one up by one per Hall-1 edge: the edges of
\* Hall sensor 2 in between leave it alone.
C9_CountsHall1Edges ==
    [][ /\ Hall2Step
        /\ ~m.calibrating
        /\ m.rotor_position # -1
        /\ \/ diff_taken = 1 /\ m.direction = "Up"
           \/ diff_taken = 3 /\ m.direction = "Down"
        => m'.location = m.location ]_vars

\* C9 (amended): with rotor_position known and calibrating false, every Hall
\* edge, of either sensor, whose phase step is upward while direction is not
\* Down moves location down by exactly one, and every edge whose phase step
\* is downward while direction is not Up moves it up by exactly one.
C9_CountsEveryEdge ==
    [][ HallStep /\ ~m.calibrating /\ m.rotor_position # -1 =>
          /\ diff_taken = 1 /\ m.direction # "Down" => m'.location = m.location - 1
          /\ diff_taken = 3 /\ m.direction # "Up" => m'.location = m.location + 1 ]_vars

\* two edges after the one that made rotor_position known, the second of
\* them of sensor 2, the blind driven upward is two ticks higher
C9_Witness ==
    /\ ev = "hall"
    /\ m.rotor_position = new_rotor_position(HALL_2_SENSOR, 1)
    /\ ~m.calibrating
    /\ m.direction = "Up"
    /\ m.target_location = -1
    /\ m.location = m.max_curtain_length - 2

\* ---------------------------------------------------------------- C10
\* the Hall edge just taken contradicts the direction of the motor
Mismatch ==
    /\ m.rotor_position # -1
    /\ \/ diff_taken = 3 /\ m.direction = "Up"
       \/ diff_taken = 1 /\ m.direction = "Down"

\* C10: a Hall edge with phase step 3 (down) while direction is Up, or 1 (up)
\* while direction is Down, increments dir_error by exactly 1 and leaves
\* location, target_location, status, direction and target_speed unchanged;
\* an edge with phase step 0 or 2, or with rotor_position -1, changes neither
\* dir_error nor location.
C10_DirectionMismatch ==
    [][ HallStep =>
          /\ Mismatch =>
                /\ m'.dir_error = m.dir_error + 1
                /\ m'.location = m.location
                /\ m'.target_location = m.target_location
                /\ m'.status = m.status
                /\ m'.direction = m.direction
                /\ m'.target_speed = m.target_speed
          /\ m.rotor_position = -1 \/ diff_taken \in {0, 2} =>
                /\ m'.dir_error = m.dir_error
                /\ m'.location = m.location ]_vars

\* a downward edge has been counted as an error while the motor drives Up
C10_Witness ==
    /\ ev = "hall"
    /\ m.dir_error = 1
    /\ m.direction = "Up"
    /\ m.status = "Moving"
    /\ m.location = m.max_curtain_length

\* ---------------------------------------------------------------- C11
\* a step of an interrupt handler other than the regulator while the motor
\* is driven
ApproachStep ==
    /\ m.status \in Powered
    /\ m.target_speed # 0
    /\ ev' \in {"hall", "hall_stop", "tick", "stall", "uart"}

SetSpeedFrame == ev' = "uart" /\ rx_buffer'[1] = CMD_EXT_SET_SPEED

\* C11 (as stated): while the motor is driven, no Hall edge, SysTick or frame
\* raises target_speed, the Set speed frame included.
C11_NeverRaised ==
    [][ApproachStep => m'.target_speed <= m.target_speed]_vars

\* C11 (amended): while the motor is driven, a Hall edge, a SysTick or a
\* frame other than Set speed never raises target_speed; a Set speed frame
\* with a parameter above 1 sets target_speed to the parameter, whether that
\* is lower or higher.
C11_OnlySetSpeedRaises ==
    [][ApproachStep =>
          IF SetSpeedFrame /\ rx_buffer'[2] > 1
          THEN m'.target_speed = rx_buffer'[2]
          ELSE m'.target_speed <= m.target_speed]_vars

\* the slowdown has lowered target_speed during an approach
C11_Witness ==
    /\ ev = "hall"
    /\ m.status = "Stopping"
    /\ m.target_speed # 0
    /\ m.target_speed < m.default_speed
    /\ m.default_speed = DEFAULT_TARGET_SPEED

\* ---------------------------------------------------------------- C12
\* C12: a frame with one of the seven answered opcodes, in any motor state,
\* leaves a reply whose last byte tx_buffer[*tx_bytes - 1] is the XOR of
\* tx_buffer[3 .. *tx_bytes - 2]; any other frame leaves *tx_bytes alone.
C12_ReplyChecksum ==
    [][ev' = "uart" =>
          IF rx_buffer' \in ReplyOpcodes
          THEN /\ tx_bytes' \in 5..9
               /\ \A i \in 0..8 : tx_buffer'[i] \in 0..(U8 - 1)
               /\ tx_buffer'[tx_bytes' - 1] = xor_bytes(tx_buffer', 3, tx_bytes' - 2)
          ELSE tx_bytes' = tx_bytes]_vars

\* a status reply sent while the motor runs, with a checksum that is not 0
C12_Witness ==
    /\ ev = "uart"
    /\ rx_buffer = Opcode(CMD_EXT_GET_STATUS)
    /\ m.status = "Moving"
    /\ tx_bytes = 9
    /\ tx_buffer[8] # 0
    /\ tx_buffer[8] = xor_bytes(tx_buffer, 3, 7)

\* ---------------------------------------------------------------- C13
\* the fraction p is a number of the closed interval [0, 100]
Percent(p) ==
    /\ p.den # 0
    /\ p.num >= 0
    /\ p.den > 0 => p.num <= 100 * p.den

C14_WritesOnlyWhenStopped ==
    [][/\ eeprom' # eeprom => m.status = "Stopped"
       /\ ev' = "uart" =>
             \A i \in DOMAIN written' :
                /\ m.status = "Stopped"
                /\ eeprom[written'[i][1]] # written'[i][2]
                /\ eeprom'[written'[i][1]] = written'[i][2]
       /\ ev' = "uart" /\ written' = <<>> => eeprom' = eeprom]_vars

\* a Set max curtain length frame handled while the motor runs: the slot
\* keeps another value than the new length
C14_Witness ==
    /\ ev = "uart"
    /\ rx_buffer = Opcode(CMD_SET_MAX_CURTAIN_LENGTH)
    /\ m.status = "Moving"
    /\ written = <<>>
    /\ eeprom[MAX_CURTAIN_LEN_EEPROM] # m.max_curtain_length % U16

\* ---------------------------------------------------------------- C15
\* the slots a persisting frame with opcode bytes c writes
affected(c) ==
    CASE c = Opcode(CMD_SET_FULL_CURTAIN_LENGTH) ->
           {FULL_CURTAIN_LEN_EEPROM, MAX_CURTAIN_LEN_EEPROM}
      [] c = Opcode(CMD_SET_MAX_CURTAIN_LENGTH) -> {MAX_CURTAIN_LEN_EEPROM}
      [] c = Opcode(CMD_RESET_CURTAIN_LENGTH) -> {MAX_CURTAIN_LEN_EEPROM}
      [] c[1] = CMD_EXT_SET_DEFAULT_SPEED /\ c[2] > 0 -> {DEFAULT_SPEED_EEPROM}
      [] c[1] = CMD_EXT_SET_MINIMUM_VOLTAGE -> {MINIMUM_VOLTAGE_EEPROM}
      [] c[1] = CMD_EXT_SET_AUTO_CAL -> {AUTO_CAL_EEPROM}
      [] OTHER -> {}

\* the setting of slot v in use (a negative length stands for length + 2^32)
setting(s, v) ==
    CASE v = MAX_CURTAIN_LEN_EEPROM -> s.max_curtain_length
      [] v = FULL_CURTAIN_LEN_EEPROM -> s.full_curtain_length
      [] v = MINIMUM_VOLTAGE_EEPROM -> s.minimum_voltage
      [] v = DEFAULT_SPEED_EEPROM -> s.default_speed
      [] v = AUTO_CAL_EEPROM -> s.auto_calibration

\* C15 (as stated): after a persisting frame (0xFAEE, 0xFACC, 0xFA00, 0x30,
\* 0x40, 0x60) handled while status == Stopped, a read of each affected slot
\* returns the value the frame applied to the setting, at every location.
C15_SlotHoldsSetting ==
    [][ev' = "uart" /\ m.status = "Stopped" =>
          \A v \in affected(rx_buffer') : eeprom'[v] = setting(m', v)]_vars

\* C15 restricted to stores with every slot written before and to lengths
\* of 0..65535
C15_Probe ==
    [][(/\ ev' = "uart"
        /\ m.status = "Stopped"
        /\ m.location \in 0..(U16 - 1)
        /\ m.full_curtain_length \in 0..(U16 - 1)
        /\ \A w \in Slots : eeprom[w] # NoValue)
       => (\A v \in affected(rx_buffer') : eeprom'[v] = setting(m', v))]_vars

\* ---------------------------------------------------------------- C16
\* the "Go to" frames: Go to % (0xDD), Ext go to (0x1X), Go to location (0x7X)
GoToPercent(c) == c[1] = CMD_GO_TO \/ (c[1] \div 16) * 16 = CMD_EXT_GO_TO
GoToLocation(c) == (c[1] \div 16) * 16 = CMD_EXT_GO_TO_LOCATION

Rejected == m'.target_location = m.target_location /\ m'.command = m.command /\ m'.status = m.status

\* C16 (as stated): while calibrating, every "Go to" frame is rejected
\* silently: target_location and the mailbox stay as they are and no motion
\* is started.
C16_GoToRejected ==
    [][ev' = "uart" /\ m.calibrating /\ (GoToPercent(rx_buffer') \/ GoToLocation(rx_buffer'))
          => Rejected]_vars

\* C16 restricted to the two percentage variants
C16_Probe ==
    [][ev' = "uart" /\ m.calibrating /\ GoToPercent(rx_buffer') => Rejected]_vars

\* ---------------------------------------------------------------- C17
\* motor_process executes command = NoCommand on a mailbox that holds a command
MailboxCleared == ev' = "main" /\ m.command # "NoCommand" /\ m'.command = "NoCommand"

\* C17 (as stated): the mailbox never loses the most recent command: what
\* command = NoCommand erases is the command motor_process has just executed,
\* never a Stop (or another command) the dispatcher wrote meanwhile.
C17_MailboxKeepsLatest ==
    [][MailboxCleared => m.command = pc_main.cmd]_vars

\* ---------------------------------------------------------------- C18
\* C18 (as stated): at every location, Up 17 (0x0A0D) sets target_location to
\* max(location - DEG(17), 0) and queues MotorUp; Down 17 (0x0A0E) sets it to
\* min(location + DEG(17), max_curtain_length), compared as signed numbers,
\* and queues MotorDown.
C18_SeventeenDegrees ==
    [][ev' = "uart" =>
          /\ rx_buffer' = Opcode(CMD_UP_17) =>
                /\ m'.target_location = Max(m.location - DEG_TO_LOCATION(17), 0)
                /\ m'.command = "MotorUp"
          /\ rx_buffer' = Opcode(CMD_DOWN_17) =>
                /\ m'.target_location =
                      Min(m.location + DEG_TO_LOCATION(17), m.max_curtain_length)
                /\ m'.command = "MotorDown"]_vars

\* C18 restricted to Up 17, and to Down 17 at the locations from which
\* location + DEG(17) is not negative
C18_Probe ==
    [][ev' = "uart" /\ m.max_curtain_length >= 0 =>
          /\ rx_buffer' = Opcode(CMD_UP_17) =>
                /\ m'.target_location = Max(m.location - DEG_TO_LOCATION(17), 0)
                /\ m'.command = "MotorUp"
          /\ rx_buffer' = Opcode(CMD_DOWN_17) /\ m.location + DEG_TO_LOCATION(17) >= 0 =>
                /\ m'.target_location =
                      Min(m.location + DEG_TO_LOCATION(17), m.max_curtain_length)
                /\ m'.command = "MotorDown"]_vars

\* ---------------------------------------------------------------- C19
\* C19 (as stated): in every reachable state curr_pwm lies in 0..254, and so
\* does every value the regulator has written to a compare register, for
\* every sequence of regulator steps with any rpm and target_speed.
C19_PwmInRange ==
    /\ m.curr_pwm \in 0..PWM_CEILING
    /\ m.CCR1 \in 0..PWM_CEILING
    /\ m.CCR4 \in 0..PWM_CEILING

\* ---------------------------------------------------------------- C20
\* every slot is present and holds the setting in use, and a load changes
\* neither the settings nor the store
StoreComplete ==
    /\ \A v \in Slots : eeprom[v] # NoValue /\ eeprom[v] = setting(m, v)
    /\ LET again == motor_load_settings(m, eeprom) IN
          /\ again.st.written = <<>>
          /\ \A v \in Slots : setting(again.s, v) = setting(m, v)

\* C20 (as stated): after the boot-time load, whatever slots were absent
\* before, each of the five slots is present and holds the value in use for
\* its setting, so that a second load reads all five and yields the same
\* settings.
C20_LoadFillsStore == ev = "boot" => StoreComplete

\* C20 restricted to the stores that had the slot of the maximum length
C20_Probe == ev = "boot" /\ eeprom[MAX_CURTAIN_LEN_EEPROM] # NoValue => StoreComplete

\* ---------------------------------------------------------------- C21
\* a Hall edge that process_location counts without stopping the motor,
\* while the motor has a direction and no calibration runs
CountedEdge ==
    /\ ev' = "hall"
    /\ ~m.calibrating
    /\ m.direction # "None"
    /\ m'.location # m.location

\* the slowdown speed of a distance: distance * 8 / slowdown_factor, never
\* below min_slowdown_speed
slowdown_speed(s, distance) ==
    Max((distance * 8) \div s.slowdown_factor, s.min_slowdown_speed)

\* C21: on a counted Hall edge that does not stop the motor, with
\* calibrating false and a direction set, the distance is
\* |target_location - location| for the location after the edge; if and only
\* if distance < target_speed * slowdown_factor / 8, status becomes Stopping
\* and target_speed becomes min(target_speed, max(distance * 8 /
\* slowdown_factor, min_slowdown_speed)); otherwise status and target_speed
\* stay as they were.  target_speed never falls below min(min_slowdown_speed,
\* previous target_speed), and with slowdown_factor = 0 the branch that
\* divides is never taken.
C21_SlowdownOnApproach ==
    [][CountedEdge =>
          LET distance == Abs(m.target_location - m'.location) IN
          /\ IF distance < (m.target_speed * m.slowdown_factor) \div 8
             THEN /\ m.slowdown_factor # 0
                  /\ m'.status = "Stopping"
                  /\ m'.target_speed = Min(m.target_speed, slowdown_speed(m, distance))
             ELSE /\ m'.status = m.status
                  /\ m'.target_speed = m.target_speed
          /\ m'.target_speed >= Min(m.min_slowdown_speed, m.target_speed)]_vars

\* an edge of an approach has lowered target_speed to min_slowdown_speed,
\* which is above distance * 8 / slowdown_factor
C21_Witness ==
    /\ ev = "hall"
    /\ ~m.calibrating
    /\ m.direction # "None"
    /\ m.status = "Stopping"
    /\ m.slowdown_factor # 0
    /\ (Abs(m.target_location - m.location) * 8) \div m.slowdown_factor < m.min_slowdown_speed
    /\ m.target_speed = m.min_slowdown_speed
    /\ m.target_speed < m.default_speed

\* ---------------------------------------------------------------- C22
\* the compare register motor_adjust_rpm writes: the one of the channel
\* selected by direction
compare(s) == IF s.direction = "Up" THEN s.CCR4 ELSE s.CCR1

\* a run of motor_adjust_rpm moves curr_pwm and the compare register against
\* the speed error rpm - target_speed
FollowsError(rpm) ==
    /\ rpm > m.target_speed =>
          /\ m'.curr_pwm <= m.curr_pwm
          /\ compare(m') <= compare(m)
    /\ rpm < m.target_speed =>
          /\ m'.curr_pwm >= m.curr_pwm
          /\ compare(m') >= compare(m)

\* C22 (as stated): a regulator step taken while rpm > target_speed never
\* leaves curr_pwm, or the compare register it writes, higher than before the
\* step, and a step taken while rpm < target_speed never leaves it lower, for
\* every reachable curr_pwm, 2 and 253 included.
C22_StepFollowsError ==
    [][ev' = "adj" => FollowsError(get_rpm(m'))]_vars

\* C22 restricted to the steps that do not start from curr_pwm = 2 with the
\* rotor more than 4 rpm faster than target_speed
C22_Probe ==
    [][ev' = "adj" /\ ~(m.curr_pwm = 2 /\ get_rpm(m') > m.target_speed + 4) =>
          FollowsError(get_rpm(m'))]_vars

\* ---------------------------------------------------------------- C23
\* no half-bridge has its high-side gate asserted while its low-side PWM
\* runs, and the two high-side gates are not asserted together
NoShootThrough(s) ==
    /\ ~(s.HIGH_1 /\ s.LOW1_PWM)
    /\ ~(s.HIGH_2 /\ s.LOW2_PWM)
    /\ ~(s.HIGH_1 /\ s.HIGH_2)

\* motor_process is inside motor_up / motor_down
Starting == pc_main.cmd \in {"MotorUp", "MotorDown"} /\ pc_main.at # 0

\* C23: in every reachable state, under every interleaving of the main
\* loop's motor_up / motor_down with the interrupt handlers and their
\* motor_stop calls, HIGH_1 is not asserted while LOW1 PWM runs, HIGH_2 is
\* not asserted while LOW2 PWM runs, and HIGH_1 and HIGH_2 are not asserted
\* together.  A MotorUp / MotorDown executed while the motor moves has the
\* whole bridge de-energized from the fourth statement of motor_stop until the
\* first statement of motor_up / motor_down after HAL_Delay, and from then on
\* only the gates of the new direction can be asserted.
C23_NoShootThrough ==
    /\ NoShootThrough(m)
    /\ Starting /\ pc_main.at \in 5..AtDrive => BridgeOff(m)
    /\ Starting /\ pc_main.at > AtDrive /\ pc_main.cmd = "MotorUp" =>
          ~m.LOW1_PWM /\ ~m.HIGH_2
    /\ Starting /\ pc_main.at > AtDrive /\ pc_main.cmd = "MotorDown" =>
          ~m.LOW2_PWM /\ ~m.HIGH_1

\* a MotorDown is executed while the motor moves Up: motor_stop has stopped
\* the two PWM channels and HIGH_1 is still asserted
C23_Witness ==
    /\ pc_main.cmd = "MotorDown"
    /\ pc_main.at = 3
    /\ m.status = "Moving"
    /\ m.direction = "Up"
    /\ m.HIGH_1
    /\ ~m.LOW1_PWM
    /\ ~m.LOW2_PWM

\* ---------------------------------------------------------------- C24
\* the motion commands that are no overrides: Up, Down, Up 17, Down 17 and
\* the three "Go to" variants
MotionFrame(c) ==
    \/ c \in {Opcode(CMD_UP), Opcode(CMD_DOWN), Opcode(CMD_UP_17), Opcode(CMD_DOWN_17)}
    \/ GoToPercent(c)
    \/ GoToLocation(c)

\* the location lies in the travel window 0 .. max_curtain_length (an
\* unsigned comparison: max_curtain_length is uint32_t)
WithinTravel(s, loc) == loc >= 0 /\ ~UGt(loc, s.max_curtain_length)

\* a motion command handled outside a calibration, at a location within the
\* travel window, leaves a target that is -1 or within the window
TargetWithinTravel(c) ==
    ev' = "uart" /\ rx_buffer' = c /\ ~m.calibrating /\ WithinTravel(m, m.location) =>
        m'.target_location = -1 \/ WithinTravel(m, m'.target_location)

\* C24 (as stated): after any motion command that is no override (Up, Down,
\* Up 17, Down 17, Go to %, Ext go to, Go to location) handled with
\* calibrating false and 0 <= location <= max_curtain_length,
\* target_location is -1 or within 0 .. max_curtain_length.
C24_TargetWithinTravel ==
    [][\A c \in Frames : MotionFrame(c) => TargetWithinTravel(c)]_vars

\* C24 restricted to the commands other than Go to location
C24_Probe ==
    [][\A d \in Frames : MotionFrame(d) /\ ~GoToLocation(d) => TargetWithinTravel(d)]_vars

====
